---- MODULE Spec2Model ----
(***************************************************************************)
(* qt2tex: LaTeX document model (latex.h), its streaming line readers,     *)
(* BaseDocument::render and the PdfFileRenderer compile pipeline.          *)
(*                                                                         *)
(* A QString is modelled as a sequence of text pieces; concatenation is    *)
(* \o, the empty QString is << >>.  Positions are 0-based as in the code,  *)
(* TLA+ sequences are 1-based, so sentences[_position] is s[pos + 1].      *)
(***************************************************************************)
EXTENDS Integers, Sequences, FiniteSets, TLC

VARIABLES
    sentences,     \* LaTeXParagraph::sentences
    label,         \* LaTeXLongTable::_label
    columns,       \* LaTeXLongTable::_columns
    rows,          \* LaTeXLongTable::rows (each row is Row::values)
    readers,       \* the live IReader objects: kind and _position
    trace,         \* per reader: what its readLine() calls returned so far
    elements,      \* BaseDocument::_elements: shared pointers to the elements
    preamble,      \* what getPreamble() of the document returns
    options,       \* LuaDocument::options (NoOptions for a LaTeXDocument)
    rpc,           \* where BaseDocument::render stands
    slot,          \* the iterator `element` of render, as a 1-based index
    elementReader, \* the local elementReader of render
    out,           \* what this call of render has written to the stream
    outVersion,    \* the number of appends made when this call began
    slotLines,     \* per slot of this call: start position and lines emitted
    lastOut,       \* text, element version and outcome of the previous call
    commands,      \* PdfFileRenderer::_commands
    ppc,           \* where PdfFileRenderer::render stands
    step,          \* the command the for loop of render is at, 1-based
    procs,         \* the QProcess objects launched so far, in launch order
    tmp,           \* the QTemporaryDir and the files in it
    outputFile,    \* the file at the output path: before the call and now
    result         \* what PdfFileRenderer::render returned

elemVars   == <<sentences, label, columns, rows>>
readerVars == <<readers, trace>>
docVars    == <<elements, preamble, options>>
renderVars == <<rpc, slot, elementReader, out, outVersion, slotLines, lastOut>>
pdfVars    == <<commands, ppc, step, procs, tmp, outputFile, result>>
vars       == <<sentences, label, columns, rows, readers, trace,
                elements, preamble, options, rpc, slot, elementReader, out,
                outVersion, slotLines, lastOut,
                commands, ppc, step, procs, tmp, outputFile, result>>

----------------------------------------------------------------------------
(* Bounds of the model *)

MaxAppends   == 2
MaxCols      == 2
MaxCells     == 2
MaxOverreads == 2
MaxThrows    == 2
MaxTypes     == 2

ReaderIds == {1, 2}

SentenceTexts == {<<"a">>, <<"b">>}
LabelText     == <<"Tab1">>

\* what a read outside a QVector's storage can yield in a release build
GarbageTexts  == {<< >>, <<"a">>, <<"?">>}

----------------------------------------------------------------------------
(* QString helpers *)

Digits == <<"0", "1", "2", "3", "4", "5", "6", "7", "8", "9">>

RECURSIVE number(_)
number(n) ==
    IF n < 10 THEN <<Digits[n + 1]>>
    ELSE number(n \div 10) \o <<Digits[(n % 10) + 1]>>

RECURSIVE join(_, _)
join(list, sep) ==
    IF Len(list) = 0 THEN << >>
    ELSE IF Len(list) = 1 THEN list[1]
    ELSE list[1] \o sep \o join(Tail(list), sep)

\* the column type tags of the default preamble
TypeTags == <<"T", "C", "S", "I", "L">>

\* the i-th column a table is constructed with
ColumnAt(i) == [name |-> <<"col">> \o number(i),
                type |-> TypeTags[((i - 1) % Len(TypeTags)) + 1]]

\* the column lists a table is constructed with
ColumnLists == {[i \in 1..k |-> ColumnAt(i)] : k \in 0..MaxCols}

\* a row of k cells
RowOf(t, k) == [i \in 1..k |-> <<t>> \o number(i)]

\* the rows that get appended to a table of c columns: two different rows
\* of c cells and one row of every other cell count up to MaxCells
RowChoices(c) == {RowOf("x", k) : k \in 0..MaxCells} \cup {RowOf("y", c)}

----------------------------------------------------------------------------
(* LaTeXParagraph::Reader *)

Paragraph_atEnd(pos, s) == pos = Len(s)

\* variant: the sentences indexed from the back
Paragraph_sentenceAt_Reversed(pos, s, g) ==
    IF pos >= 0 /\ pos < Len(s) THEN s[Len(s) - pos] ELSE g

\* _source->sentences[_position]; outside the vector the read is undefined
\* and yields the garbage value g
Paragraph_sentenceAt(pos, s, g) ==
    IF pos >= 0 /\ pos < Len(s) THEN s[pos + 1] ELSE g

Paragraph_outOfRange(pos, s) == ~Paragraph_atEnd(pos, s) /\ ~(pos >= 0 /\ pos < Len(s))

Paragraph_result(pos, s, g) ==
    IF Paragraph_atEnd(pos, s) THEN << >> ELSE Paragraph_sentenceAt(pos, s, g)

\* ++_position, executed on both branches of readLine()
Paragraph_nextPosition(pos, s) == pos + 1

----------------------------------------------------------------------------
(* LaTeXLongTable::Reader *)

TableBeginHead == "\\begin{xltabular}[l]{\\textwidth}{"
TableBeginTail == "}"
TableLabelHead == "\\multicolumn{"
TableLabelMid  == "}{l}{\\hspace{-\\tabcolsep}"
TableLabelTail == "} \\\\ \\hline"
TableEnd       == <<"\\end{xltabular}">>
RowStart       == <<"    ">>
RowEnd         == <<" \\\\ \\hline">>
ColumnSeparator     == <<" & ">>
ColumnTypeSeparator == "|"

RECURSIVE getColsFrom(_)
getColsFrom(cs) ==
    IF Len(cs) = 0 THEN << >>
    ELSE <<cs[1].type, ColumnTypeSeparator>> \o getColsFrom(Tail(cs))

\* variant: the separator before the first column type is left out
getCols_NoLead(cs) == getColsFrom(cs)

\* getCols: the separator, then per column its type and the separator
getCols(cs) == <<ColumnTypeSeparator>> \o getColsFrom(cs)

getTableBegin(cs) == <<TableBeginHead>> \o getCols(cs) \o <<TableBeginTail>>

getTableLabel(cs, lbl) ==
    RowStart \o <<TableLabelHead>> \o number(Len(cs)) \o <<TableLabelMid>>
             \o lbl \o <<TableLabelTail>>

\* variant: the names are joined from the last column to the first
getTableHeader_Reversed(cs) ==
    RowStart \o join([i \in 1..Len(cs) |-> cs[Len(cs) + 1 - i].name],
                     ColumnSeparator) \o RowEnd

getTableHeader(cs) ==
    RowStart \o join([i \in 1..Len(cs) |-> cs[i].name], ColumnSeparator) \o RowEnd

\* variant: the cell count of the row is not compared with the column count
getRow_Unchecked(rowIndex, cs, rs) ==
    IF Len(rs) < rowIndex \/ rowIndex < 0
    THEN [kind |-> "line", line |-> << >>]
    ELSE IF rowIndex = Len(rs)
    THEN [kind |-> "undefined", line |-> << >>]
    ELSE [kind |-> "line",
          line |-> RowStart \o join(rs[rowIndex + 1], ColumnSeparator) \o RowEnd]

\* outcome of getRow: a line, the std::exception, or an undefined read of rows
getRow(rowIndex, cs, rs) ==
    IF Len(rs) < rowIndex \/ rowIndex < 0
    THEN [kind |-> "line", line |-> << >>]
    ELSE IF rowIndex = Len(rs)
    THEN [kind |-> "undefined", line |-> << >>]
    ELSE IF Len(rs[rowIndex + 1]) # Len(cs)
    THEN [kind |-> "throw", line |-> << >>]
    ELSE [kind |-> "line",
          line |-> RowStart \o join(rs[rowIndex + 1], ColumnSeparator) \o RowEnd]

\* variant: the header line is not counted
getCurrentRowIndex_OffByOne(pos) == pos - 2

getCurrentRowIndex(pos) == pos - 3

\* variant: the close directive takes the place of the last row
allRowsReady_Early(pos, rs) == pos = Len(rs) + 2

allRowsReady(pos, rs) == pos = Len(rs) + 3

LongTable_atEnd(pos, rs) == pos = Len(rs) + 4

\* the value readLine() computes before ++_position
LongTable_result(pos, cs, rs, lbl) ==
    IF pos = 0 THEN [kind |-> "line", line |-> getTableBegin(cs)]
    ELSE IF pos = 1 THEN [kind |-> "line", line |-> getTableLabel(cs, lbl)]
    ELSE IF pos = 2 THEN [kind |-> "line", line |-> getTableHeader(cs)]
    ELSE IF allRowsReady(pos, rs) THEN [kind |-> "line", line |-> TableEnd]
    ELSE getRow(getCurrentRowIndex(pos), cs, rs)

\* variant: the counter is advanced before the row is fetched, so a row that
\* raised is stepped over
LongTable_nextPosition_SkipsBadRow(pos, cs, rs, lbl) ==
    IF LongTable_atEnd(pos, rs) THEN pos ELSE pos + 1

\* variant: the counter is advanced on the early return too
LongTable_nextPosition_PastEnd(pos, cs, rs, lbl) ==
    IF LongTable_atEnd(pos, rs) THEN pos + 1
    ELSE IF LongTable_result(pos, cs, rs, lbl).kind = "line" THEN pos + 1
    ELSE pos

\* _position after readLine(): unchanged on the early return and on a throw
LongTable_nextPosition(pos, cs, rs, lbl) ==
    IF LongTable_atEnd(pos, rs) THEN pos
    ELSE IF LongTable_result(pos, cs, rs, lbl).kind = "line" THEN pos + 1
    ELSE pos

----------------------------------------------------------------------------
(* Element construction and mutation *)

NoReader   == [kind |-> "none", position |-> 0]
NoTmp      == [dir |-> "none", tex |-> << >>, texState |-> "none", pdf |-> "none"]
NoOutput   == [text |-> << >>, version |-> -1, outcome |-> "none"]
\* the output path holding f, before any call has touched it
OutputFileWith(f) ==
    [before |-> f, now |-> f, text |-> << >>, removal |-> "none", rename |-> "none"]
EmptyTrace == [lines |-> << >>, overreads |-> 0, throws |-> 0, undefined |-> FALSE]

NoLiveReader == \A r \in ReaderIds : readers[r].kind = "none"

\* no call of render is under way
RenderIdle == rpc \in {"idle", "done", "thrown"}

\* the number of appends made to the elements so far
Version == Len(sentences) + Len(rows)

\* par->sentences.append(...)
AppendSentence ==
    /\ NoLiveReader /\ RenderIdle /\ ppc = "idle"
    /\ Version < MaxAppends
    /\ \E s \in SentenceTexts : sentences' = Append(sentences, s)
    /\ UNCHANGED <<label, columns, rows, readers, trace, docVars, renderVars,
                   pdfVars>>

\* table->rows.append(...): any cell count is accepted
AppendRow ==
    /\ NoLiveReader /\ RenderIdle /\ ppc = "idle"
    /\ Version < MaxAppends
    /\ \E row \in RowChoices(Len(columns)) : rows' = Append(rows, row)
    /\ UNCHANGED <<sentences, label, columns, readers, trace, docVars,
                   renderVars, pdfVars>>

\* LaTeXParagraph::getReader
Paragraph_getReader(r) ==
    /\ readers[r].kind = "none"
    /\ readers' = [readers EXCEPT ![r] = [kind |-> "par", position |-> 0]]
    /\ trace' = [trace EXCEPT ![r] = EmptyTrace]
    /\ UNCHANGED <<elemVars, docVars, renderVars, pdfVars>>

\* LaTeXLongTable::getReader
LongTable_getReader(r) ==
    /\ readers[r].kind = "none"
    /\ readers' = [readers EXCEPT ![r] = [kind |-> "tab", position |-> 0]]
    /\ trace' = [trace EXCEPT ![r] = EmptyTrace]
    /\ UNCHANGED <<elemVars, docVars, renderVars, pdfVars>>

\* variant: _position is one counter shared by all readers of an element
setPosition_Shared(rds, r, next) ==
    [q \in ReaderIds |->
        IF rds[q].kind = rds[r].kind THEN [rds[q] EXCEPT !.position = next]
        ELSE rds[q]]

\* the store to _position, a member of the Reader object r alone
setPosition(rds, r, next) == [rds EXCEPT ![r].position = next]

\* LaTeXParagraph::Reader::readLine
Paragraph_readLine(r) ==
    /\ readers[r].kind = "par"
    /\ LET pos == readers[r].position IN
       /\ Paragraph_atEnd(pos, sentences) => trace[r].overreads < MaxOverreads
       /\ Paragraph_outOfRange(pos, sentences) => trace[r].overreads < MaxOverreads
       /\ \E g \in GarbageTexts :
            /\ readers' = setPosition(readers, r,
                                      Paragraph_nextPosition(pos, sentences))
            /\ trace' = [trace EXCEPT
                  ![r].lines = Append(@, Paragraph_result(pos, sentences, g)),
                  ![r].overreads = IF Paragraph_atEnd(pos, sentences)
                                      \/ Paragraph_outOfRange(pos, sentences)
                                   THEN @ + 1 ELSE @,
                  ![r].undefined = @ \/ Paragraph_outOfRange(pos, sentences)]
    /\ UNCHANGED <<elemVars, docVars, renderVars, pdfVars>>

\* LaTeXLongTable::Reader::readLine
LongTable_readLine(r) ==
    /\ readers[r].kind = "tab"
    /\ LET pos == readers[r].position
           res == LongTable_result(pos, columns, rows, label)
       IN
       /\ LongTable_atEnd(pos, rows) => trace[r].overreads < MaxOverreads
       /\ (~LongTable_atEnd(pos, rows) /\ res.kind # "line")
              => trace[r].throws < MaxThrows
       /\ readers' = setPosition(readers, r,
                      LongTable_nextPosition(pos, columns, rows, label))
       /\ trace' = [trace EXCEPT
             ![r].lines = IF LongTable_atEnd(pos, rows) THEN Append(@, << >>)
                          ELSE IF res.kind = "line" THEN Append(@, res.line)
                          ELSE @,
             ![r].overreads = IF LongTable_atEnd(pos, rows) THEN @ + 1 ELSE @,
             ![r].throws = IF ~LongTable_atEnd(pos, rows) /\ res.kind = "throw"
                           THEN @ + 1 ELSE @,
             ![r].undefined = @ \/ (~LongTable_atEnd(pos, rows)
                                    /\ res.kind = "undefined")]
    /\ UNCHANGED <<elemVars, docVars, renderVars, pdfVars>>

----------------------------------------------------------------------------
(* BaseDocument::render *)

LineStart     == <<"    ">>
DocumentBegin == <<"\\begin{document}">>
DocumentEnd   == <<"\\end{document}">>
NewLine       == <<"\n">>

\* the documents that get constructed: lists of pointers to the one
\* paragraph and the one table, as in main()
DocumentChoices == { << >>, <<"par">>, <<"tab">>, <<"par", "par">>,
                     <<"tab", "par", "tab">> }
PreambleText == <<"P">>

\* variant: the element keeps one reader for all calls of render
getReader_KeptAcrossCalls(kind) ==
    [kind |-> kind,
     position |-> IF lastOut.outcome = "none" THEN 0
                  ELSE IF kind = "par" THEN Len(sentences) ELSE Len(rows) + 4]

\* variant: the slots of one element share one reader within a call
getReader_SharedBySlots(kind) ==
    [kind |-> kind,
     position |-> IF \A i \in 1..(slot - 1) : elements[i] # kind THEN 0
                  ELSE IF kind = "par" THEN Len(sentences) ELSE Len(rows) + 4]

\* variant: the document reads the copy of the paragraph it made when it
\* was constructed, before any sentence was appended
getReader_OfCopy(kind) ==
    [kind |-> kind, position |-> IF kind = "par" THEN Len(sentences) ELSE 0]

\* element->get()->getReader(): a new Reader whose _position is 0
getReader(kind) == [kind |-> kind, position |-> 0]

\* variant: atEnd() reports the end one line late
Reader_atEnd_OneLate(rd) ==
    IF rd.kind = "par" THEN rd.position = Len(sentences) + 1
    ELSE rd.position = Len(rows) + 5

\* elementReader->atEnd()
Reader_atEnd(rd) ==
    IF rd.kind = "par" THEN Paragraph_atEnd(rd.position, sentences)
    ELSE LongTable_atEnd(rd.position, rows)

\* elementReader->readLine(): what it returns (or raises) ...
Reader_result(rd, g) ==
    IF rd.kind = "par"
    THEN [kind |-> "line", line |-> Paragraph_result(rd.position, sentences, g)]
    ELSE IF LongTable_atEnd(rd.position, rows)
    THEN [kind |-> "line", line |-> << >>]
    ELSE LongTable_result(rd.position, columns, rows, label)

\* ... and the reader it leaves behind
Reader_next(rd) ==
    IF rd.kind = "par"
    THEN [rd EXCEPT !.position = Paragraph_nextPosition(rd.position, sentences)]
    ELSE [rd EXCEPT !.position =
             LongTable_nextPosition(rd.position, columns, rows, label)]

\* out << getPreamble() << "\n\n"; out << DocumentBegin << "\n";
renderHead(pre) == pre \o NewLine \o NewLine \o DocumentBegin \o NewLine

\* variant: the line-start prefix is left out
renderLine_NoPrefix(line) == line \o NewLine

\* out << LineStart << elementReader->readLine() << "\n";
renderLine(line) == LineStart \o line \o NewLine

\* variant: no blank line is written after the lines of an element
renderElementEnd_None == << >>

\* out << "\n"; after the lines of an element
renderElementEnd == NewLine

\* out << DocumentEnd << "\n";
renderTail == DocumentEnd \o NewLine

\* render() is entered: preamble and document-open line
RenderBegin ==
    /\ RenderIdle /\ NoLiveReader
    /\ ppc \in {"idle", "render", "texrender", "rp_render"}
    /\ ppc' = IF ppc = "render" THEN "write"
              ELSE IF ppc = "texrender" THEN "texwrite"
              ELSE IF ppc = "rp_render" THEN "rp_write" ELSE ppc
    /\ rpc' = "loop"
    /\ slot' = 1
    /\ elementReader' = NoReader
    /\ out' = renderHead(preamble)
    /\ slotLines' = << >>
    /\ outVersion' = Version
    /\ lastOut' = IF rpc = "idle" THEN lastOut
                  ELSE [text |-> out, version |-> outVersion, outcome |-> rpc]
    /\ UNCHANGED <<elemVars, readerVars, docVars,
                   commands, step, procs, tmp, outputFile, result>>

\* the for loop takes the next element and asks it for a reader
RenderGetReader ==
    /\ rpc = "loop" /\ slot <= Len(elements)
    /\ elementReader' = getReader(elements[slot])
    /\ slotLines' = Append(slotLines,
                           [start |-> elementReader'.position, lines |-> << >>])
    /\ rpc' = "read"
    /\ UNCHANGED <<elemVars, readerVars, docVars, slot, out, outVersion, lastOut,
                   pdfVars>>

\* one turn of the while loop; a std::exception leaves render() at once
RenderReadLine ==
    /\ rpc = "read" /\ ~Reader_atEnd(elementReader)
    /\ \E g \in GarbageTexts :
         LET res == Reader_result(elementReader, g) IN
         IF res.kind = "line"
         THEN /\ out' = out \o renderLine(res.line)
              /\ slotLines' = [slotLines EXCEPT ![slot].lines = Append(@, res.line)]
              /\ elementReader' = Reader_next(elementReader)
              /\ rpc' = "read"
         ELSE /\ rpc' = "thrown"
              /\ UNCHANGED <<out, slotLines, elementReader>>
    /\ UNCHANGED <<elemVars, readerVars, docVars, slot, outVersion, lastOut,
                   pdfVars>>

\* the while loop ends: blank line, reader destroyed, next element
RenderElementEnd ==
    /\ rpc = "read" /\ Reader_atEnd(elementReader)
    /\ out' = out \o renderElementEnd
    /\ elementReader' = NoReader
    /\ slot' = slot + 1
    /\ rpc' = "loop"
    /\ UNCHANGED <<elemVars, readerVars, docVars, outVersion, slotLines, lastOut,
                   pdfVars>>

\* the for loop ends: document-close line, render() returns
RenderEnd ==
    /\ rpc = "loop" /\ slot > Len(elements)
    /\ out' = out \o renderTail
    /\ rpc' = "done"
    /\ UNCHANGED <<elemVars, readerVars, docVars, slot, elementReader,
                   outVersion, slotLines, lastOut, pdfVars>>

----------------------------------------------------------------------------
(* PdfFileRenderer and TeXFileRenderer *)

TmpTeXFilename == <<"main.tex">>
TmpPdfFilename == <<"main.pdf">>

\* QTemporaryDir::path() of a valid temporary directory
TmpPath == <<"/tmp/qt2tex-XXXXXX">>

\* the command presets of PdfLaTeXFileRenderer and LuaLaTeXFileRenderer
PdfLaTeXCommands ==
    << [name |-> "pdflatex", args |-> <<<<"-halt-on-error">>, <<"-draftmode">>>>],
       [name |-> "pdflatex", args |-> <<<<"-halt-on-error">>>>] >>

LuaLaTeXCommands ==
    << [name |-> "lualatex", args |-> <<<<"--halt-on-error">>, <<"--draftmode">>>>],
       [name |-> "lualatex", args |-> <<<<"--halt-on-error">>>>] >>

\* the parents and timeouts the two-argument constructors are called with
Parents  == {"nullptr", "app"}
Timeouts == {1000, 50000}

\* variant: the constructor with parent and timeout leaves out the draft pass
PdfLaTeXFileRenderer_FinalOnly(parent, timeoutMSecs) ==
    [parent |-> parent, timeoutMSecs |-> timeoutMSecs,
     commands |->
       << [name |-> "pdflatex", args |-> <<<<"-halt-on-error">>>>] >>]

\* PdfLaTeXFileRenderer(QObject *parent, int timeoutMSecs)
PdfLaTeXFileRenderer(parent, timeoutMSecs) ==
    [parent |-> parent, timeoutMSecs |-> timeoutMSecs,
     commands |->
       << [name |-> "pdflatex", args |-> <<<<"-halt-on-error">>, <<"-draftmode">>>>],
          [name |-> "pdflatex", args |-> <<<<"-halt-on-error">>>>] >>]

\* LuaLaTeXFileRenderer(QObject *parent, int timeoutMSecs)
LuaLaTeXFileRenderer(parent, timeoutMSecs) ==
    [parent |-> parent, timeoutMSecs |-> timeoutMSecs,
     commands |->
       << [name |-> "lualatex", args |-> <<<<"--halt-on-error">>, <<"--draftmode">>>>],
          [name |-> "lualatex", args |-> <<<<"--halt-on-error">>>>] >>]

\* the renderers of the two preset classes, from either constructor; the
\* constructors without arguments take parent nullptr and 50000 ms
PdfLaTeXRenderers ==
    { PdfLaTeXFileRenderer(p, t) : p \in Parents, t \in Timeouts }
        \cup { [parent |-> "nullptr", timeoutMSecs |-> 50000,
                commands |-> PdfLaTeXCommands] }

LuaLaTeXRenderers ==
    { LuaLaTeXFileRenderer(p, t) : p \in Parents, t \in Timeouts }
        \cup { [parent |-> "nullptr", timeoutMSecs |-> 50000,
                commands |-> LuaLaTeXCommands] }

\* the command lists a PdfFileRenderer is constructed with
CommandLists ==
    { << >>,
      << [name |-> "latex", args |-> << >>],
         [name |-> "bibtex", args |-> <<<<"-terse">>>>],
         [name |-> "latex", args |-> <<<<"-final">>>>] >> }
        \cup { r.commands : r \in PdfLaTeXRenderers \cup LuaLaTeXRenderers }

\* how a launched process can end: exit code 0, another exit code, never
\* started, or still running when the timeout expires
Outcomes == {"exit0", "exit1", "failstart", "timeout"}

\* QTemporaryDir::filePath(name): empty when the directory is not valid
filePath(dir, name) ==
    IF dir = "exists" THEN TmpPath \o <<"/">> \o name ELSE << >>

dirPath(dir) == IF dir = "exists" THEN TmpPath ELSE << >>

outputDirOption(dir) == <<"-output-directory=">> \o dir

\* variant: the source file is put before the output-directory option
launchArguments_SourceFirst(dir, texFile, commandArgs) ==
    Append(Append(commandArgs, texFile), outputDirOption(dir))

\* launchArguments of launchCommandOverTexFile
launchArguments(dir, texFile, commandArgs) ==
    Append(Append(commandArgs, outputDirOption(dir)), texFile)

\* variant: the exit code of the process is not looked at
launchSucceeded_AnyExitCode(outcome) == outcome \in {"exit0", "exit1"}

\* variant: the result of waitForFinished is not looked at
launchSucceeded_NoTimeout(outcome) == outcome \in {"exit0", "timeout"}

\* what launchCommandOverTexFile returns: waitForFinished(_timeoutMSecs)
\* was true and exitCode() is 0
launchSucceeded(outcome) ==
    /\ outcome \notin {"failstart", "timeout"}
    /\ outcome = "exit0"

\* render returns b; the QTemporaryDir goes out of scope and removes the
\* directory with everything in it
Return(b) ==
    /\ ppc' = "returned"
    /\ result' = b
    /\ tmp' = [tmp EXCEPT !.dir = IF @ = "exists" THEN "removed" ELSE @,
                          !.tex = << >>, !.pdf = "none"]

\* PdfFileRenderer::render is entered: QTemporaryDir tmp
PdfRender_begin ==
    /\ ppc = "idle" /\ RenderIdle /\ NoLiveReader
    /\ \E d \in {"exists", "invalid"} : tmp' = [tmp EXCEPT !.dir = d]
    /\ ppc' = "open"
    /\ UNCHANGED <<elemVars, readerVars, docVars, renderVars,
                   commands, step, procs, outputFile, result>>

\* writeTmpTexFile -> TeXFileRenderer::render: outputFile.open(WriteOnly | Truncate)
TeXFile_open ==
    /\ ppc = "open"
    /\ \E opened \in BOOLEAN :
         /\ (filePath(tmp.dir, TmpTeXFilename) = << >>) => ~opened
         /\ IF opened
            THEN /\ tmp' = [tmp EXCEPT !.tex = << >>, !.texState = "open"]
                 /\ ppc' = "render"
                 /\ UNCHANGED result
            ELSE /\ ppc' = "returned"
                 /\ result' = FALSE
                 /\ tmp' = [tmp EXCEPT !.dir = IF @ = "exists" THEN "removed" ELSE @,
                                        !.texState = "openfailed"]
    /\ UNCHANGED <<elemVars, readerVars, docVars, renderVars,
                   commands, step, procs, outputFile>>

\* what is in a file whose writes failed part of the way (device full)
ShortOf(text) == SubSeq(text, 1, Len(text) - 1)

\* variant: the stream is not flushed before the file is closed
fileText_NoFlush(text, written) == ShortOf(text)

\* what is in the file after texFileStream.flush() and outputFile.close():
\* all that render wrote to the stream when the writes went through
fileText(text, written) == IF written THEN text ELSE ShortOf(text)

\* TeXFileRenderer::render after document.render returned: flush, close,
\* return true; writeTmpTexFile returns true and render goes on to the loop.
\* Neither the stream status nor the result of flush is looked at, so a
\* write that failed goes unnoticed.
TeXFile_close ==
    /\ ppc = "write" /\ rpc = "done"
    /\ \E written \in BOOLEAN :
         tmp' = [tmp EXCEPT !.tex = fileText(out, written),
                            !.texState = IF written THEN "written" ELSE "short"]
    /\ step' = 1
    /\ ppc' = "commands"
    /\ UNCHANGED <<elemVars, readerVars, docVars, renderVars,
                   commands, procs, outputFile, result>>

\* document.render raised std::exception: nothing catches it in
\* TeXFileRenderer::render, writeTmpTexFile or PdfFileRenderer::render.  The
\* stream and file destructors leave what was written in the file; the
\* temporary directory is removed when the stack is unwound, which an
\* uncaught exception need not do.
TeXFile_throw ==
    /\ ppc = "write" /\ rpc = "thrown"
    /\ ppc' = "thrown"
    /\ result' = "exception"
    /\ \E unwound \in BOOLEAN :
         tmp' = IF unwound
                THEN [tmp EXCEPT !.dir = "removed", !.tex = << >>,
                                 !.texState = "aborted"]
                ELSE [tmp EXCEPT !.tex = out, !.texState = "aborted"]
    /\ UNCHANGED <<elemVars, readerVars, docVars, renderVars,
                   commands, step, procs, outputFile>>

\* variant: the source text is written to main.tex once more, after what is
\* there, before every step
Launch_start_Rewrites ==
    /\ ppc = "commands" /\ step <= Len(commands)
    /\ tmp' = [tmp EXCEPT !.tex = @ \o out]
    /\ procs' = Append(procs,
          [step |-> step,
           program |-> commands[step].name,
           arguments |-> launchArguments(dirPath(tmp.dir),
                                         filePath(tmp.dir, TmpTeXFilename),
                                         commands[step].args),
           tex |-> tmp'.tex,
           state |-> "started",
           running |-> TRUE])
    /\ ppc' = "waiting"
    /\ UNCHANGED <<elemVars, readerVars, docVars, renderVars,
                   commands, step, outputFile, result>>

\* launchCommandOverTexFile up to pdflatex.start()
Launch_start ==
    /\ ppc = "commands" /\ step <= Len(commands)
    /\ procs' = Append(procs,
          [step |-> step,
           program |-> commands[step].name,
           arguments |-> launchArguments(dirPath(tmp.dir),
                                         filePath(tmp.dir, TmpTeXFilename),
                                         commands[step].args),
           tex |-> tmp.tex,
           state |-> "started",
           running |-> TRUE])
    /\ ppc' = "waiting"
    /\ UNCHANGED <<elemVars, readerVars, docVars, renderVars,
                   commands, step, tmp, outputFile, result>>

\* variant: a process that outlived the timeout is left to run
runningAfterReturn_NoKill(outcome) == outcome = "timeout"

\* whether the process still runs when launchCommandOverTexFile has
\* returned: the QProcess is a local of the function, and its destructor
\* ends a process that is still running
runningAfterReturn(outcome) == FALSE

\* launchCommandOverTexFile from waitForFinished(_timeoutMSecs) on; the
\* QProcess is destroyed on return, which ends a process still running.  A
\* process that ran may have written main.pdf.
Launch_wait ==
    /\ ppc = "waiting"
    /\ \E outcome \in Outcomes, wrote \in BOOLEAN :
         /\ (outcome = "failstart") => ~wrote
         /\ procs' = [procs EXCEPT ![Len(procs)].state = outcome,
                                   ![Len(procs)].running = runningAfterReturn(outcome)]
         /\ IF launchSucceeded(outcome)
            THEN /\ tmp' = [tmp EXCEPT !.pdf = IF wrote THEN "pdf" ELSE @]
                 /\ step' = step + 1
                 /\ ppc' = "commands"
                 /\ UNCHANGED result
            ELSE /\ Return(FALSE)
                 /\ UNCHANGED step
    /\ UNCHANGED <<elemVars, readerVars, docVars, renderVars,
                   commands, outputFile>>

\* variant: the result of removing the existing file is not looked at
removeExistingOutputFile_Ignored(exists, removed) == TRUE

\* what removeExistingOutputFile returns: the result of QFile::remove when
\* a file is at the output path, true when there is none
removeExistingOutputFile(exists, removed) ==
    IF exists THEN removed ELSE TRUE

\* if (!removeExistingOutputFile(output)) return false;
Remove_existing ==
    /\ ppc = "commands" /\ step > Len(commands)
    /\ \E removed \in BOOLEAN :
         LET exists == outputFile.now # "none"
         IN  /\ outputFile' =
                    [outputFile EXCEPT
                       !.now = IF exists /\ removed THEN "none" ELSE @,
                       !.removal = IF ~exists THEN "nofile"
                                   ELSE IF removed THEN "removed" ELSE "failed"]
             /\ IF removeExistingOutputFile(exists, removed)
                THEN /\ ppc' = "rename"
                     /\ UNCHANGED <<tmp, result>>
                ELSE Return(FALSE)
    /\ UNCHANGED <<elemVars, readerVars, docVars, renderVars,
                   commands, step, procs>>

\* variant: render returns true whatever QFile::rename returned
renameResult_AlwaysTrue(moved) == TRUE

\* what render returns at its end: the result of QFile::rename
renameResult(moved) == moved

\* QFile::rename(source, target) moves the file only when the source is
\* there and nothing is at the target; it may fail even then
canRename(source, target) == source # "none" /\ target = "none"

\* return QFile::rename(tmp.filePath(TmpPdfFilename), output.filePath())
Rename_artifact ==
    /\ ppc = "rename"
    /\ \E moved \in BOOLEAN :
         /\ ~canRename(tmp.pdf, outputFile.now) => ~moved
         /\ outputFile' =
                [outputFile EXCEPT
                   !.now = IF moved THEN tmp.pdf ELSE @,
                   !.rename = IF moved THEN "moved" ELSE "failed"]
         /\ Return(renameResult(moved))
    /\ UNCHANGED <<elemVars, readerVars, docVars, renderVars,
                   commands, step, procs>>

\* TeXFileRenderer::render called with the caller's output path:
\* outputFile.open(WriteOnly | Truncate) creates the file or empties the one
\* that is there
TeXRender_open ==
    /\ ppc = "idle" /\ RenderIdle /\ NoLiveReader
    /\ \E opened \in BOOLEAN :
         IF opened
         THEN /\ outputFile' = [outputFile EXCEPT !.now = "tex", !.text = << >>]
              /\ ppc' = "texrender"
              /\ UNCHANGED <<tmp, result>>
         ELSE /\ Return(FALSE)
              /\ UNCHANGED outputFile
    /\ UNCHANGED <<elemVars, readerVars, docVars, renderVars,
                   commands, step, procs>>

\* TeXFileRenderer::render on the output path after document.render
\* returned: flush, close, return true
TeXRender_close ==
    /\ ppc = "texwrite" /\ rpc = "done"
    /\ \E written \in BOOLEAN :
         outputFile' = [outputFile EXCEPT
                          !.now = IF written THEN "tex" ELSE "texshort",
                          !.text = fileText(out, written)]
    /\ Return(TRUE)
    /\ UNCHANGED <<elemVars, readerVars, docVars, renderVars,
                   commands, step, procs>>

\* document.render raised std::exception while the stream was on the file
\* at the output path: the file stays as opened, with the lines written so
\* far when the stream is destroyed by unwinding and empty otherwise
TeXRender_throw ==
    /\ ppc = "texwrite" /\ rpc = "thrown"
    /\ ppc' = "thrown"
    /\ result' = "exception"
    /\ \E unwound \in BOOLEAN :
         outputFile' = [outputFile EXCEPT
                          !.text = IF unwound THEN out ELSE << >>]
    /\ UNCHANGED <<elemVars, readerVars, docVars, renderVars,
                   commands, step, procs, tmp>>

----------------------------------------------------------------------------
(* LuaDocument: the preamble built from the options *)

\* a LaTeXDocument has no options
NoOptions == [fontSize |-> 0, margin |-> 0, columnSep |-> 0,
              mainFont |-> << >>, sansFont |-> << >>, monoFont |-> << >>,
              columnsTypes |-> << >>]

\* ColumnType::ColumnType(name, alignment, size, autoFit); size is a uint8_t
ColumnType(name, alignment, size, autoFit) ==
    [name |-> name, alignment |-> alignment, size |-> size % 256,
     autoFit |-> autoFit]

\* ColumnType::getAlignmentCommand
getAlignmentCommand(ct) ==
    IF ct.alignment = "Left" THEN "raggedleft"
    ELSE IF ct.alignment = "Center" THEN "centering"
    ELSE IF ct.alignment = "Right" THEN "raggedright"
    ELSE "centering"

\* variant: the autoFit flag is not looked at
asCommand_FixedOnly(ct) ==
    <<"\\newcolumntype{", ct.name, "}{>{\\", getAlignmentCommand(ct),
      "\\arraybackslash}p{">> \o number(ct.size) \o <<"mm}}">>

\* ColumnType::asCommand
asCommand(ct) ==
    IF ct.autoFit
    THEN <<"\\newcolumntype{", ct.name, "}{>{\\", getAlignmentCommand(ct),
           "\\arraybackslash}X}">>
    ELSE <<"\\newcolumntype{", ct.name, "}{>{\\", getAlignmentCommand(ct),
           "\\arraybackslash}p{">> \o number(ct.size) \o <<"mm}}">>

\* the member initialisers of Options
DefaultOptions ==
    [fontSize |-> 9, margin |-> 15, columnSep |-> 2,
     mainFont |-> <<"Liberation Serif">>,
     sansFont |-> <<"Liberation Sans">>,
     monoFont |-> <<"Liberation Mono">>,
     columnsTypes |-> << ColumnType("T", "Center", 15, FALSE),
                         ColumnType("S", "Center", 4, FALSE),
                         ColumnType("I", "Center", 7, FALSE),
                         ColumnType("L", "Center", 11, FALSE),
                         ColumnType("C", "Center", 0, TRUE) >>]

\* Options::Options(fontSize, margin, columnSep, mainFont, sansFont,
\* monoFont, columnsTypes); the three sizes are uint8_t and taken as given
Options(fontSize, margin, columnSep, mainFont, sansFont, monoFont, columnsTypes) ==
    [fontSize |-> fontSize % 256, margin |-> margin % 256,
     columnSep |-> columnSep % 256,
     mainFont |-> mainFont, sansFont |-> sansFont, monoFont |-> monoFont,
     columnsTypes |-> columnsTypes]

\* the fixed lines of the preamble, before the column types
fixedPreambleLines(o) ==
    << <<"\\documentclass[russian,openany,a4paper,">> \o number(o.fontSize)
           \o <<"pt,landscape]{extarticle}">>,
       <<"\\usepackage[russian]{babel}">>,
       <<"\\usepackage[a4paper,margin=">> \o number(o.margin) \o <<"mm]{geometry}">>,
       <<"\\pagewidth=297mm">>,
       <<"\\pageheight=210mm">>,
       <<"\\setlength{\\parindent}{0pt}">>,
       <<"\\usepackage{lastpage}">>,
       <<"\\usepackage{array}">>,
       <<"\\usepackage{xltabular}">>,
       <<"\\usepackage{fontspec}">>,
       <<"\\setlength{\\tabcolsep}{">> \o number(o.columnSep) \o <<"pt}">>,
       <<"\\setmainfont{">> \o o.mainFont \o <<"}">>,
       <<"\\setsansfont{">> \o o.sansFont \o <<"}">>,
       <<"\\setmonofont{">> \o o.monoFont \o <<"}">> >>

\* LuaDocument::getPreamble
LuaDocument_getPreamble(o) ==
    join(fixedPreambleLines(o)
             \o [i \in 1..Len(o.columnsTypes) |-> asCommand(o.columnsTypes[i])],
         NewLine)

\* the column types options are constructed with: the first k of these
TypeAt(i) ==
    IF i = 1 THEN ColumnType("C", "Center", 0, TRUE)
    ELSE IF i = 2 THEN ColumnType("X", "Left", 0, TRUE)
    ELSE IF i = 3 THEN ColumnType("T", "Right", 15, FALSE)
    ELSE ColumnType("S", "Center", 4 + i, FALSE)

ColumnsTypesChoices == { [i \in 1..k |-> TypeAt(i)] : k \in 0..MaxTypes }

\* the font sizes options are constructed with: two of the sizes the
\* document class knows and two it does not
FontSizeChoices == {12, 20, 13, 0}

\* the options a LuaDocument is constructed with
OptionChoices ==
    {DefaultOptions} \cup
    { Options(f, 15, 2, <<"Serif">>, <<"Sans">>, <<"Mono">>, cts) :
          f \in FontSizeChoices, cts \in ColumnsTypesChoices }

----------------------------------------------------------------------------
(* A LaTeXParagraph that is filled and then read through its readers *)

InitParagraph ==
    /\ sentences = << >>
    /\ label = LabelText
    /\ columns = << >>
    /\ rows = << >>
    /\ readers = [r \in ReaderIds |-> NoReader]
    /\ trace = [r \in ReaderIds |-> EmptyTrace]
    /\ elements = << >>
    /\ preamble = << >>
    /\ options = NoOptions
    /\ rpc = "idle"
    /\ slot = 0
    /\ elementReader = NoReader
    /\ out = << >>
    /\ outVersion = 0
    /\ slotLines = << >>
    /\ lastOut = NoOutput
    /\ commands = << >>
    /\ ppc = "idle"
    /\ step = 0
    /\ procs = << >>
    /\ tmp = NoTmp
    /\ outputFile = OutputFileWith("none")
    /\ result = "none"

NextParagraph ==
    \/ AppendSentence
    \/ \E r \in ReaderIds : Paragraph_getReader(r)
    \/ \E r \in ReaderIds : Paragraph_readLine(r)

SpecParagraph == InitParagraph /\ [][NextParagraph]_vars

(* A LaTeXLongTable that is constructed, filled and then read *)

InitLongTable ==
    /\ sentences = << >>
    /\ label = LabelText
    /\ columns \in ColumnLists
    /\ rows = << >>
    /\ readers = [r \in ReaderIds |-> NoReader]
    /\ trace = [r \in ReaderIds |-> EmptyTrace]
    /\ elements = << >>
    /\ preamble = << >>
    /\ options = NoOptions
    /\ rpc = "idle"
    /\ slot = 0
    /\ elementReader = NoReader
    /\ out = << >>
    /\ outVersion = 0
    /\ slotLines = << >>
    /\ lastOut = NoOutput
    /\ commands = << >>
    /\ ppc = "idle"
    /\ step = 0
    /\ procs = << >>
    /\ tmp = NoTmp
    /\ outputFile = OutputFileWith("none")
    /\ result = "none"

NextLongTable ==
    \/ AppendRow
    \/ \E r \in ReaderIds : LongTable_getReader(r)
    \/ \E r \in ReaderIds : LongTable_readLine(r)

SpecLongTable == InitLongTable /\ [][NextLongTable]_vars

(* A paragraph and a table are filled; then readers of either are taken and
   read, their calls interleaved in every order *)

NextReaders ==
    \/ NextParagraph
    \/ NextLongTable

SpecReaders == InitLongTable /\ [][NextReaders]_vars

(* A document over the paragraph and the table: the elements are filled,
   the document is rendered, more is appended, it is rendered again *)

Init ==
    /\ sentences = << >>
    /\ label = LabelText
    /\ columns \in ColumnLists
    /\ rows = << >>
    /\ readers = [r \in ReaderIds |-> NoReader]
    /\ trace = [r \in ReaderIds |-> EmptyTrace]
    /\ elements \in DocumentChoices
    /\ preamble = PreambleText
    /\ options = NoOptions
    /\ rpc = "idle"
    /\ slot = 0
    /\ elementReader = NoReader
    /\ out = << >>
    /\ outVersion = 0
    /\ slotLines = << >>
    /\ lastOut = NoOutput
    /\ commands = << >>
    /\ ppc = "idle"
    /\ step = 0
    /\ procs = << >>
    /\ tmp = NoTmp
    /\ outputFile = OutputFileWith("none")
    /\ result = "none"

Next ==
    \/ AppendSentence
    \/ AppendRow
    \/ RenderBegin
    \/ RenderGetReader
    \/ RenderReadLine
    \/ RenderElementEnd
    \/ RenderEnd

Spec == Init /\ [][Next]_vars

\* a step of a call of render that is under way
RenderStep ==
    \/ RenderGetReader
    \/ RenderReadLine
    \/ RenderElementEnd
    \/ RenderEnd

\* render is straight-line sequential code: a call that was entered goes on
\* to its next statement
SpecTerminating == Init /\ [][Next]_vars /\ WF_vars(RenderStep)

(* A LuaDocument is constructed and rendered to a stream *)

InitLua ==
    /\ sentences \in {<< >>, <<<<"a">>, <<"b">>>>}
    /\ label = LabelText
    /\ columns = [i \in 1..1 |-> ColumnAt(i)]
    /\ rows = << >>
    /\ readers = [r \in ReaderIds |-> NoReader]
    /\ trace = [r \in ReaderIds |-> EmptyTrace]
    /\ elements \in {<< >>, <<"par">>, <<"par", "tab">>}
    /\ options \in OptionChoices
    /\ preamble = LuaDocument_getPreamble(options)
    /\ rpc = "idle"
    /\ slot = 0
    /\ elementReader = NoReader
    /\ out = << >>
    /\ outVersion = Version
    /\ slotLines = << >>
    /\ lastOut = NoOutput
    /\ commands = << >>
    /\ ppc = "idle"
    /\ step = 0
    /\ procs = << >>
    /\ tmp = NoTmp
    /\ outputFile = OutputFileWith("none")
    /\ result = "none"

NextLua ==
    \/ RenderBegin
    \/ RenderGetReader
    \/ RenderReadLine
    \/ RenderElementEnd
    \/ RenderEnd

SpecLua == InitLua /\ [][NextLua]_vars

(* A document is compiled once by a PdfFileRenderer; the document may have
   been rendered to a stream before *)

\* the rows the compiled table holds: none, a row that fits, and a row that
\* fits followed by one with a cell too many
PdfRowLists(c) == { << >>, <<RowOf("x", c)>>, <<RowOf("x", c), RowOf("y", c + 1)>> }

InitPdf ==
    /\ sentences \in {<< >>, <<<<"a">>, <<"b">>>>}
    /\ label = LabelText
    /\ columns = [i \in 1..1 |-> ColumnAt(i)]
    /\ rows \in PdfRowLists(Len(columns))
    /\ readers = [r \in ReaderIds |-> NoReader]
    /\ trace = [r \in ReaderIds |-> EmptyTrace]
    /\ elements \in {<<"par">>, <<"par", "tab">>}
    /\ preamble = PreambleText
    /\ options = NoOptions
    /\ rpc = "idle"
    /\ slot = 0
    /\ elementReader = NoReader
    /\ out = << >>
    /\ outVersion = Version
    /\ slotLines = << >>
    /\ lastOut = NoOutput
    /\ commands \in CommandLists
    /\ ppc = "idle"
    /\ step = 0
    /\ procs = << >>
    /\ tmp = NoTmp
    /\ \E f \in {"none", "old"} : outputFile = OutputFileWith(f)
    /\ result = "none"

NextPdf ==
    \/ RenderBegin
    \/ RenderGetReader
    \/ RenderReadLine
    \/ RenderElementEnd
    \/ RenderEnd
    \/ PdfRender_begin
    \/ TeXFile_open
    \/ TeXFile_close
    \/ TeXFile_throw
    \/ Launch_start
    \/ Launch_wait
    \/ Remove_existing
    \/ Rename_artifact

SpecPdf == InitPdf /\ [][NextPdf]_vars

(* The same document handed to either FileRenderer: compiled by a
   PdfFileRenderer or written to the output path by a TeXFileRenderer *)

NextFile ==
    \/ NextPdf
    \/ TeXRender_open
    \/ TeXRender_close
    \/ TeXRender_throw

SpecFile == InitPdf /\ [][NextFile]_vars

----------------------------------------------------------------------------
(* The free function render_pdf *)

\* render_pdf returns b; tmp goes out of scope and removes the directory
render_pdf_return(b) ==
    /\ ppc' = "rp_returned"
    /\ result' = b
    /\ tmp' = [tmp EXCEPT !.dir = IF @ = "exists" THEN "removed" ELSE @,
                          !.tex = << >>, !.pdf = "none"]

\* QTemporaryDir tmp; if (!tmp.isValid()) return false;
render_pdf_begin ==
    /\ ppc = "idle" /\ RenderIdle /\ NoLiveReader
    /\ \E d \in {"exists", "invalid"} :
         IF d = "exists"
         THEN /\ tmp' = [tmp EXCEPT !.dir = d]
              /\ ppc' = "rp_open"
              /\ UNCHANGED result
         ELSE /\ tmp' = [tmp EXCEPT !.dir = d]
              /\ ppc' = "rp_returned"
              /\ result' = FALSE
    /\ UNCHANGED <<elemVars, readerVars, docVars, renderVars,
                   commands, step, procs, outputFile>>

\* if (!tmpTexFile.open(QIODevice::WriteOnly)) return false;
render_pdf_open ==
    /\ ppc = "rp_open"
    /\ \E opened \in BOOLEAN :
         IF opened
         THEN /\ tmp' = [tmp EXCEPT !.tex = << >>, !.texState = "open"]
              /\ ppc' = "rp_render"
              /\ UNCHANGED result
         ELSE /\ ppc' = "rp_returned"
              /\ result' = FALSE
              /\ tmp' = [tmp EXCEPT !.dir = "removed", !.texState = "openfailed"]
    /\ UNCHANGED <<elemVars, readerVars, docVars, renderVars,
                   commands, step, procs, outputFile>>

\* document.render(tmpTexStream) returned; tmpTexFile.close() takes what the
\* stream holds.  Nothing looks at the stream status.
render_pdf_close ==
    /\ ppc = "rp_write" /\ rpc = "done"
    /\ \E written \in BOOLEAN :
         tmp' = [tmp EXCEPT !.tex = fileText(out, written),
                            !.texState = IF written THEN "written" ELSE "short"]
    /\ step' = 1
    /\ ppc' = "rp_pass"
    /\ UNCHANGED <<elemVars, readerVars, docVars, renderVars,
                   commands, procs, outputFile, result>>

\* document.render raised std::exception: render_pdf does not catch it
render_pdf_throw ==
    /\ ppc = "rp_write" /\ rpc = "thrown"
    /\ ppc' = "rp_thrown"
    /\ result' = "exception"
    /\ \E unwound \in BOOLEAN :
         tmp' = IF unwound
                THEN [tmp EXCEPT !.dir = "removed", !.tex = << >>,
                                 !.texState = "aborted"]
                ELSE [tmp EXCEPT !.tex = out, !.texState = "aborted"]
    /\ UNCHANGED <<elemVars, readerVars, docVars, renderVars,
                   commands, step, procs, outputFile>>

\* the arguments of firstPass.start and of secondPass.start
render_pdf_arguments(pass, dir, texFile) ==
    IF pass = 1 THEN << <<"-draftmode">>, outputDirOption(dir), texFile >>
    ELSE << outputDirOption(dir), texFile >>

\* firstPass.start(...) and secondPass.start(...)
render_pdf_start ==
    /\ ppc = "rp_pass" /\ step <= 2
    /\ procs' = Append(procs,
          [step |-> step,
           program |-> "pdflatex",
           arguments |-> render_pdf_arguments(step, dirPath(tmp.dir),
                                   filePath(tmp.dir, TmpTeXFilename)),
           tex |-> tmp.tex,
           state |-> "started",
           running |-> TRUE])
    /\ ppc' = "rp_waiting"
    /\ UNCHANGED <<elemVars, readerVars, docVars, renderVars,
                   commands, step, tmp, outputFile, result>>

\* what waitForFinished() returns: the process started and finished within
\* the default timeout; the exit code is not looked at
passFinished(outcome) == outcome \notin {"failstart", "timeout"}

\* if (!firstPass.waitForFinished()) return false; and the same for
\* secondPass.  The QProcess objects are locals of render_pdf.
render_pdf_wait ==
    /\ ppc = "rp_waiting"
    /\ \E outcome \in Outcomes, wrote \in BOOLEAN :
         /\ (outcome = "failstart") => ~wrote
         /\ procs' = [procs EXCEPT ![Len(procs)].state = outcome,
                                   ![Len(procs)].running = FALSE]
         /\ IF passFinished(outcome)
            THEN /\ tmp' = [tmp EXCEPT !.pdf = IF wrote THEN "pdf" ELSE @]
                 /\ step' = step + 1
                 /\ ppc' = "rp_pass"
                 /\ UNCHANGED result
            ELSE /\ render_pdf_return(FALSE)
                 /\ UNCHANGED step
    /\ UNCHANGED <<elemVars, readerVars, docVars, renderVars,
                   commands, outputFile>>

\* if (outputFile.exists()) QFile(outputFile.filePath()).remove(); the
\* result of remove() is dropped
render_pdf_remove ==
    /\ ppc = "rp_pass" /\ step > 2
    /\ \E removed \in BOOLEAN :
         LET exists == outputFile.now # "none"
         IN  outputFile' =
                 [outputFile EXCEPT
                    !.now = IF exists /\ removed THEN "none" ELSE @,
                    !.removal = IF ~exists THEN "nofile"
                                ELSE IF removed THEN "removed" ELSE "failed"]
    /\ ppc' = "rp_copy"
    /\ UNCHANGED <<elemVars, readerVars, docVars, renderVars,
                   commands, step, procs, tmp, result>>

\* return QFile::copy(tmp.filePath("main.pdf"), outputFile.filePath());
\* copy, like rename, needs the source and nothing at the target
render_pdf_copy ==
    /\ ppc = "rp_copy"
    /\ \E copied \in BOOLEAN :
         /\ ~canRename(tmp.pdf, outputFile.now) => ~copied
         /\ outputFile' =
                [outputFile EXCEPT
                   !.now = IF copied THEN tmp.pdf ELSE @,
                   !.rename = IF copied THEN "moved" ELSE "failed"]
         /\ render_pdf_return(copied)
    /\ UNCHANGED <<elemVars, readerVars, docVars, renderVars,
                   commands, step, procs>>

(* The same document and output path handed either to render_pdf or to
   PdfLaTeXFileRenderer().render *)

InitLegacy ==
    /\ InitPdf
    /\ commands = PdfLaTeXFileRenderer("nullptr", 50000).commands

NextLegacy ==
    \/ NextPdf
    \/ render_pdf_begin
    \/ render_pdf_open
    \/ render_pdf_close
    \/ render_pdf_throw
    \/ render_pdf_start
    \/ render_pdf_wait
    \/ render_pdf_remove
    \/ render_pdf_copy

SpecLegacy == InitLegacy /\ [][NextLegacy]_vars

----------------------------------------------------------------------------
(* Properties of the paragraph reader (checked under SpecParagraph) *)

IsPar(r) == readers[r].kind = "par"
IsTab(r) == readers[r].kind = "tab"

\* a reader that was only ever read while atEnd() was false
Disciplined(r) == trace[r].overreads = 0

\* C1: a fresh paragraph reader read while atEnd() is false returns exactly
\* the N sentences, in insertion order, one per line, and atEnd() is true
\* exactly when N lines have been returned (at once when N = 0).
C1_ParagraphYieldsSentences ==
    \A r \in ReaderIds :
        (IsPar(r) /\ Disciplined(r)) =>
            /\ Len(trace[r].lines) <= Len(sentences)
            /\ trace[r].lines = SubSeq(sentences, 1, Len(trace[r].lines))
            /\ Paragraph_atEnd(readers[r].position, sentences)
                   <=> (Len(trace[r].lines) = Len(sentences))

C1_Witness ==
    \E r \in ReaderIds :
        /\ IsPar(r) /\ Disciplined(r)
        /\ sentences = << <<"b">>, <<"a">> >>
        /\ trace[r].lines = sentences
        /\ Paragraph_atEnd(readers[r].position, sentences)

\* C2: once a paragraph reader has reported exhaustion it stays exhausted:
\* after any further readLine() calls atEnd() is still true, every such call
\* returned the empty line, and nothing outside the sentences was read.
C2_ParagraphExhaustionPermanent ==
    \A r \in ReaderIds :
        (IsPar(r) /\ trace[r].overreads > 0) =>
            /\ Paragraph_atEnd(readers[r].position, sentences)
            /\ \A i \in (Len(sentences) + 1)..Len(trace[r].lines) :
                   trace[r].lines[i] = << >>
            /\ ~trace[r].undefined

----------------------------------------------------------------------------
(* Properties of the long-table reader (checked under SpecLongTable) *)

WellFormed(row) == Len(row) = Len(columns)
AllRowsWellFormed == \A k \in 1..Len(rows) : WellFormed(rows[k])

\* 0-based index of the first row whose cell count differs from the column
\* count, -1 when there is none
FirstBadRow ==
    IF AllRowsWellFormed THEN -1
    ELSE (CHOOSE k \in 1..Len(rows) :
             /\ ~WellFormed(rows[k])
             /\ \A j \in 1..(k - 1) : WellFormed(rows[j])) - 1

\* C3: with every row holding exactly C cells, a fresh table reader read
\* while atEnd() is false returns exactly R+4 lines; the line at 0-based
\* index R+3 is the close directive and no other line is.
C3_TableYieldsRowsPlusFour ==
    \A r \in ReaderIds :
        (IsTab(r) /\ Disciplined(r) /\ AllRowsWellFormed) =>
            /\ Len(trace[r].lines) <= Len(rows) + 4
            /\ LongTable_atEnd(readers[r].position, rows)
                   <=> (Len(trace[r].lines) = Len(rows) + 4)
            /\ \A i \in 1..Len(trace[r].lines) :
                   (trace[r].lines[i] = TableEnd) <=> (i - 1 = Len(rows) + 3)

C3_Witness ==
    \E r \in ReaderIds :
        /\ IsTab(r) /\ Disciplined(r) /\ AllRowsWellFormed
        /\ Len(columns) = 2 /\ Len(rows) = 2
        /\ LongTable_atEnd(readers[r].position, rows)
        /\ Len(trace[r].lines) = 6
        /\ trace[r].lines[6] = TableEnd

\* the line the table is to show at 0-based index i
C4_LineAt(i) ==
    IF i = 0 THEN <<TableBeginHead>> \o getCols(columns) \o <<TableBeginTail>>
    ELSE IF i = 1 THEN getTableLabel(columns, label)
    ELSE IF i = 2 THEN getTableHeader(columns)
    ELSE IF i = Len(rows) + 3 THEN TableEnd
    ELSE RowStart \o join(rows[i - 2], ColumnSeparator) \o RowEnd

\* C4: a table reader returns open, label, header, then data row i at index
\* 3+i in append order, then close; what is returned at an index depends
\* only on the index and the table, so two readers agree index by index.
C4_TableLineOrder ==
    /\ \A r \in ReaderIds :
          (IsTab(r) /\ Disciplined(r)) =>
              \A i \in 1..Len(trace[r].lines) :
                  /\ i - 1 <= Len(rows) + 3
                  /\ trace[r].lines[i] = C4_LineAt(i - 1)
    /\ \A r1, r2 \in ReaderIds :
          (IsTab(r1) /\ IsTab(r2) /\ Disciplined(r1) /\ Disciplined(r2)) =>
              \A i \in 1..Len(trace[r1].lines) :
                  i <= Len(trace[r2].lines) =>
                      trace[r1].lines[i] = trace[r2].lines[i]

C4_Witness ==
    \E r1, r2 \in ReaderIds :
        /\ r1 # r2 /\ IsTab(r1) /\ IsTab(r2)
        /\ Disciplined(r1) /\ Disciplined(r2)
        /\ Len(columns) = 2
        /\ rows = <<RowOf("y", 2), RowOf("x", 2)>>
        /\ Len(trace[r1].lines) = 6
        /\ Len(trace[r2].lines) = 4
        /\ trace[r1].lines[4] # trace[r1].lines[5]

\* C5: a row of the wrong cell count is accepted by append; the fatal
\* condition is raised only by the readLine() that reaches the first such
\* row k, after open, label, header and rows 0..k-1 were returned, and that
\* read always raises it; a table of well-formed rows never raises it.
C5_FatalOnlyAtFirstBadRow ==
    /\ [](\A r \in ReaderIds :
            IsTab(r) =>
                /\ (trace[r].throws > 0) =>
                       /\ FirstBadRow >= 0
                       /\ readers[r].position = 3 + FirstBadRow
                       /\ Len(trace[r].lines) = 3 + FirstBadRow
                /\ (FirstBadRow >= 0) => readers[r].position <= 3 + FirstBadRow
                /\ (FirstBadRow = -1) => trace[r].throws = 0)
    /\ [][\A r \in ReaderIds :
            (IsTab(r) /\ FirstBadRow >= 0 /\ trace'[r] # trace[r]
                /\ readers[r].position = 3 + FirstBadRow)
                => /\ trace'[r].throws = trace[r].throws + 1
                   /\ trace'[r].lines = trace[r].lines
                   /\ readers'[r] = readers[r]]_vars

C5_Witness ==
    \E r \in ReaderIds :
        /\ IsTab(r)
        /\ Len(columns) = 2
        /\ Len(rows) = 2 /\ WellFormed(rows[1]) /\ ~WellFormed(rows[2])
        /\ trace[r].throws > 0
        /\ Len(trace[r].lines) = 4

----------------------------------------------------------------------------
(* Properties of BaseDocument::render (checked under Spec) *)

\* the lines an element is to contribute, from its contents
ElementLines(kind) ==
    IF kind = "par" THEN sentences
    ELSE [i \in 1..(Len(rows) + 4) |-> C4_LineAt(i - 1)]

\* nothing was appended to an element since the current call of render began
Unmutated == Version = outVersion

IsPrefix(a, b) == Len(a) <= Len(b) /\ a = SubSeq(b, 1, Len(a))

\* C6: two calls of render with no append to any element in between produce
\* the same text (and the same outcome), and no step of render changes the
\* document, its preamble or its elements.
C6_RenderTwiceIdentical ==
    /\ []((rpc \in {"done", "thrown"} /\ lastOut.outcome # "none"
             /\ lastOut.version = outVersion)
            => (out = lastOut.text /\ rpc = lastOut.outcome))
    /\ [][(~RenderIdle \/ ~RenderIdle') => UNCHANGED <<elemVars, docVars>>]_vars

C6_Witness ==
    /\ rpc = "done"
    /\ lastOut.outcome = "done" /\ lastOut.version = outVersion
    /\ elements = <<"tab", "par", "tab">>
    /\ Len(sentences) = 1 /\ Len(rows) = 1
    /\ out = lastOut.text

\* C7: an element that occupies several slots is emitted in full at each of
\* them: every finished slot started from a reader at position 0 and holds
\* the complete line sequence of its element, so slots of the same element
\* hold the same lines.
C7_SlotsRenderIndependently ==
    \A i \in 1..Len(slotLines) :
        (i < slot /\ Unmutated) =>
            /\ slotLines[i].start = 0
            /\ slotLines[i].lines = ElementLines(elements[i])
            /\ \A j \in 1..Len(slotLines) :
                   (j < slot /\ elements[i] = elements[j])
                       => slotLines[i].lines = slotLines[j].lines

C7_Witness ==
    /\ rpc = "done" /\ Unmutated
    /\ elements = <<"tab", "par", "tab">>
    /\ Len(rows) = 2 /\ Len(columns) = 2
    /\ Len(slotLines) = 3
    /\ Len(slotLines[1].lines) = 6
    /\ slotLines[3].lines = slotLines[1].lines

RECURSIVE C8_Lines(_)
C8_Lines(lines) ==
    IF Len(lines) = 0 THEN << >>
    ELSE <<"    ">> \o lines[1] \o <<"\n">> \o C8_Lines(Tail(lines))

RECURSIVE C8_Blocks(_)
C8_Blocks(elems) ==
    IF Len(elems) = 0 THEN << >>
    ELSE C8_Lines(ElementLines(elems[1])) \o <<"\n">> \o C8_Blocks(Tail(elems))

C8_Text ==
    preamble \o <<"\n">> \o <<"\n">> \o <<"\\begin{document}">> \o <<"\n">>
        \o C8_Blocks(elements) \o <<"\\end{document}">> \o <<"\n">>

\* C8: render emits the preamble, a blank line, the document-open line, for
\* each element in order its lines, each prefixed and newline-terminated,
\* and a blank line, then the document-close line: what is written is at
\* every moment a prefix of that text and, on return, all of it.
C8_RenderLayout ==
    /\ (rpc # "idle" /\ Unmutated) => IsPrefix(out, C8_Text)
    /\ (rpc = "done" /\ Unmutated) => out = C8_Text

C8_Witness ==
    /\ rpc = "done" /\ Unmutated
    /\ elements = <<"tab", "par", "tab">>
    /\ Len(sentences) = 1 /\ Len(rows) = 1 /\ Len(columns) = 1
    /\ out = C8_Text

\* the slots of the document that hold the element of this kind
SlotsOf(kind) == { i \in 1..Len(elements) : elements[i] = kind }

\* C27: the document holds its elements by reference: the sentences and
\* rows appended after the document was constructed, or after an earlier
\* call of render, and before a call of render began are in what that call
\* emits, at every slot of the element and in append order; a call after an
\* append to an element of the document emits more than the call before it.
C27_AppendsReachNextRender ==
    /\ (rpc = "done" /\ Unmutated) =>
           /\ \A i \in SlotsOf("par") : slotLines[i].lines = sentences
           /\ \A i \in SlotsOf("tab") :
                  /\ Len(slotLines[i].lines) = Len(rows) + 4
                  /\ \A k \in 1..Len(rows) :
                         slotLines[i].lines[3 + k] =
                             <<"    ">> \o join(rows[k], <<" & ">>)
                                 \o <<" \\\\ \\hline">>
    /\ (rpc = "done" /\ Unmutated /\ lastOut.outcome = "done"
           /\ lastOut.version < outVersion
           /\ SlotsOf("par") # {} /\ SlotsOf("tab") # {}) =>
               /\ Len(out) > Len(lastOut.text)
               /\ out # lastOut.text

C27_Witness ==
    /\ rpc = "done" /\ Unmutated
    /\ lastOut.outcome = "done" /\ lastOut.version = 1 /\ outVersion = 2
    /\ elements = <<"tab", "par", "tab">>
    /\ Len(sentences) = 1 /\ Len(rows) = 1
    /\ slotLines[2].lines = sentences
    /\ Len(slotLines[1].lines) = 5 /\ Len(slotLines[3].lines) = 5

----------------------------------------------------------------------------
(* Properties of PdfFileRenderer::render (checked under SpecPdf) *)

Failed(p) == p.state \in {"exit1", "failstart", "timeout"}

\* C9: the command steps are invoked in list order, each at most once; a
\* step is invoked only after all earlier steps finished in time with exit
\* code 0; the first step that exits non-zero, fails to start or times out
\* is the last one invoked and makes the call return false.
C9_StepsInOrderAbortOnFailure ==
    /\ Len(procs) <= Len(commands)
    /\ \A i \in 1..Len(procs) :
          /\ procs[i].step = i
          /\ procs[i].program = commands[i].name
          /\ (i < Len(procs)) => procs[i].state = "exit0"
          /\ Failed(procs[i]) =>
                (i = Len(procs) /\ ppc = "returned" /\ result = FALSE)

C9_Witness ==
    /\ Len(commands) = 3
    /\ Len(procs) = 2
    /\ procs[1].state = "exit0" /\ procs[2].state = "timeout"
    /\ ppc = "returned" /\ result = FALSE

\* C10: if a command step fails (non-zero exit, failure to start, timeout)
\* the call returns false and the output path is as it was before the call:
\* no file is created there and a file that was there is still there.
C10_FailedStepLeavesOutput ==
    (\E i \in 1..Len(procs) : Failed(procs[i])) =>
        /\ ppc = "returned" /\ result = FALSE
        /\ outputFile.now = outputFile.before

C10_Witness ==
    /\ commands = PdfLaTeXCommands
    /\ Len(procs) = 1 /\ procs[1].state = "exit1"
    /\ outputFile.before = "old"
    /\ ppc = "returned" /\ result = FALSE
    /\ outputFile.now = "old"

----------------------------------------------------------------------------
(* Properties of the output path and the temporary directory (checked
   under SpecPdf) *)

\* C11: whenever PdfFileRenderer::render returns true, the output path
\* holds the main.pdf that a step of this call wrote in the temporary
\* directory, moved there by the rename; a file that was at the path before
\* was removed first, so nothing of it remains.
C11_SuccessLeavesOnlyNewArtifact ==
    (ppc = "returned" /\ result = TRUE) =>
        /\ outputFile.now = "pdf"
        /\ outputFile.rename = "moved"
        /\ \E i \in 1..Len(procs) : procs[i].state = "exit0"
        /\ (outputFile.before # "none") => outputFile.removal = "removed"

C11_Witness ==
    /\ ppc = "returned" /\ result = TRUE
    /\ outputFile.before = "old"
    /\ outputFile.now = "pdf"

\* C12: when a row whose cell count differs from the column count aborts
\* the render, the output path of the caller holds what it held before the
\* call, whichever renderer was called: no file was created there and the
\* file that was there was neither emptied nor partly rewritten.
C12_AbortLeavesOutputPath ==
    (ppc = "thrown") =>
        /\ outputFile.now = outputFile.before
        /\ outputFile.text = << >>

\* the call of PdfFileRenderer::render has ended
CallEnded == ppc \in {"returned", "thrown"}

\* C13: a call of the compile entry point ends in one of two ways only, by
\* returning true or by returning false; every failure, the structural
\* content error included, comes out as the value false.
C13_OnlyTrueOrFalse ==
    CallEnded => (ppc = "returned" /\ result \in BOOLEAN)

C15_FailedRemovalAborts ==
    (outputFile.removal = "failed") =>
        /\ Len(procs) = Len(commands)
        /\ \A i \in 1..Len(procs) : procs[i].state = "exit0"
        /\ ppc = "returned" /\ result = FALSE
        /\ outputFile.rename = "none"
        /\ outputFile.before = "old"
        /\ outputFile.now = outputFile.before

C15_Witness ==
    /\ outputFile.removal = "failed"
    /\ Len(procs) = 2
    /\ tmp.pdf = "none" /\ tmp.dir = "removed"
    /\ ppc = "returned"

\* C16: when main.tex in the temporary directory could not be opened, or
\* could not be written in full, no command step is ever started, the
\* output path is neither emptied nor renamed onto, and the call returns
\* false.
C16_SourceFailureStopsPipeline ==
    (tmp.texState \in {"openfailed", "short"}) =>
        /\ procs = << >>
        /\ outputFile.removal = "none" /\ outputFile.rename = "none"
        /\ outputFile.now = outputFile.before
        /\ (ppc = "returned") => (result = FALSE)

\* the steps of this call whose process is running
Running == { i \in 1..Len(procs) : procs[i].running }

\* C17: within one call of the compile entry point at most one external
\* process runs at any moment: a running process is the one of the last
\* step started and render is waiting for it; all steps started before it
\* have finished in time with exit code 0; after a step that timed out or
\* failed nothing runs and nothing is started.
C17_OneProcessAtATime ==
    /\ Cardinality(Running) <= 1
    /\ \A i \in Running : i = Len(procs) /\ ppc = "waiting"
    /\ \A i \in 1..(Len(procs) - 1) : procs[i].state = "exit0"
    /\ (\E i \in 1..Len(procs) : Failed(procs[i])) =>
           (Running = {} /\ ppc = "returned")

C17_Witness ==
    /\ Len(procs) = 3
    /\ Running = {3}
    /\ procs[1].state = "exit0" /\ procs[2].state = "exit0"

----------------------------------------------------------------------------------------------------------------------------------------
(* Further properties of the long-table reader (checked under
   SpecLongTable) *)

ExampleColumns ==
    << [name |-> <<"Time">>, type |-> "T"],
       [name |-> <<"Id">>,   type |-> "C"],
       [name |-> <<"Name">>, type |-> "C"] >>

\* the column-type string as it stands in a table-open directive
ColsOf(line) == SubSeq(line, 2, Len(line) - 1)

\* C20: the column-type string of the table-open directive is '|' followed,
\* for each column in construction order, by the type character of the
\* column and another '|'; for C columns it has 2C+1 characters and begins
\* and ends with '|'; the types T, C, C give |T|C|C|.
C20_ColumnTypeString ==
    /\ \A r \in ReaderIds :
          (IsTab(r) /\ Len(trace[r].lines) >= 1) =>
              LET line == trace[r].lines[1]
                  cols == ColsOf(line)
              IN  /\ line[1] = TableBeginHead
                  /\ line[Len(line)] = TableBeginTail
                  /\ Len(cols) = 2 * Len(columns) + 1
                  /\ cols[1] = "|" /\ cols[Len(cols)] = "|"
                  /\ \A i \in 1..Len(columns) :
                         /\ cols[2 * i] = columns[i].type
                         /\ cols[2 * i + 1] = "|"
    /\ getCols(ExampleColumns) = <<"|", "T", "|", "C", "|", "C", "|">>

C20_Witness ==
    \E r \in ReaderIds :
        /\ IsTab(r)
        /\ Len(columns) = 2
        /\ Len(trace[r].lines) >= 1
        /\ ColsOf(trace[r].lines[1]) = <<"|", "T", "|", "C", "|">>

----------------
(* Properties of several readers of one element (checked under SpecReaders) *)

\* the element reader r was taken from
KindOf(r) == readers[r].kind

\* C18: readers taken from the same element, read only while atEnd() is
\* false and with their calls interleaved in any order, each return the
\* lines of the element from the first on, in order, and are at the end
\* exactly when all lines were returned; a step that moves one reader moves
\* no other reader, and no step of a reader changes the element.
C18_ReadersIndependent ==
    /\ [](\A r \in ReaderIds :
            (KindOf(r) # "none" /\ Disciplined(r)) =>
                /\ IsPrefix(trace[r].lines, ElementLines(KindOf(r)))
                /\ readers[r].position = Len(trace[r].lines)
                /\ Reader_atEnd(readers[r])
                       <=> (trace[r].lines = ElementLines(KindOf(r))))
    /\ [][\A r \in ReaderIds :
            (readers'[r] # readers[r]) =>
                \A q \in ReaderIds \ {r} :
                    readers'[q] = readers[q] /\ trace'[q] = trace[q]]_vars
    /\ [][(readers' # readers \/ trace' # trace) => UNCHANGED elemVars]_vars

C18_Witness ==
    \E r1, r2 \in ReaderIds :
        /\ r1 # r2 /\ KindOf(r1) = "tab" /\ KindOf(r2) = "tab"
        /\ Disciplined(r1) /\ Disciplined(r2)
        /\ AllRowsWellFormed /\ Len(rows) = 1 /\ Len(columns) = 2
        /\ Reader_atEnd(readers[r1])
        /\ trace[r1].lines = ElementLines("tab")
        /\ readers[r2].position = 2

----------------------------------------------------------------------------
(* Properties of the header, label and row lines of a table (checked under
   SpecLongTable) *)

\* the pieces of text between the occurrences of the separator sep in line
RECURSIVE SplitAt(_, _)
SplitAt(line, sep) ==
    IF \A i \in 1..Len(line) : <<line[i]>> # sep THEN <<line>>
    ELSE LET k == CHOOSE i \in 1..Len(line) :
                      /\ <<line[i]>> = sep
                      /\ \A j \in 1..(i - 1) : <<line[j]>> # sep
         IN  <<SubSeq(line, 1, k - 1)>>
                 \o SplitAt(SubSeq(line, k + 1, Len(line)), sep)

\* how many times the separator sep stands in line
SeparatorsIn(line, sep) ==
    Cardinality({ i \in 1..Len(line) : <<line[i]>> = sep })

\* the names of the columns, in column order
ColumnNames == [i \in 1..Len(columns) |-> columns[i].name]

\* line is exactly the strings of cells joined by the column separator and
\* followed by the row terminator, with nothing before them
JoinedAndTerminated(line, cells) ==
    /\ Len(line) >= 1
    /\ <<line[Len(line)]>> = RowEnd
    /\ LET middle == SubSeq(line, 1, Len(line) - 1)
       IN  IF Len(cells) = 0 THEN middle = << >>
           ELSE /\ SplitAt(middle, ColumnSeparator) = cells
                /\ SeparatorsIn(middle, ColumnSeparator) = Len(cells) - 1

\* line is the four blanks of RowStart followed by the joined and
\* terminated cells
IndentedJoinedAndTerminated(line, cells) ==
    /\ Len(line) >= 2
    /\ <<line[1]>> = RowStart
    /\ JoinedAndTerminated(Tail(line), cells)

\* C21: the header line is the column names in column order joined by
\* " & " and followed by the row terminator, and the line of a data row is
\* the cell values of the row joined and terminated in the same way, these
\* lines holding nothing else; a line of C >= 1 columns holds C-1
\* separators and the label directive spans C columns.
C21_LinesAreJoinedCells ==
    \A r \in ReaderIds :
        (IsTab(r) /\ Disciplined(r)) =>
            \A i \in 1..Len(trace[r].lines) :
                /\ (i = 2) => trace[r].lines[i] =
                                 getTableLabel(columns, label)
                /\ (i = 3) => JoinedAndTerminated(trace[r].lines[i], ColumnNames)
                /\ (i >= 4 /\ i <= Len(rows) + 3) =>
                       JoinedAndTerminated(trace[r].lines[i], rows[i - 3])

\* C21 amended: the header line is RowStart (four blanks), then the column
\* names in column order joined by " & ", then the row terminator; the line
\* of a data row is RowStart, then the cell values of the row in order
\* joined by " & ", then the row terminator; such a line of C >= 1 columns
\* holds exactly C-1 separators; the label directive is RowStart, then
\* \multicolumn{C}{l}{\hspace{-\tabcolsep}label} and the row terminator.
C21_LinesAreIndentedJoinedCells ==
    \A r \in ReaderIds :
        (IsTab(r) /\ Disciplined(r)) =>
            \A i \in 1..Len(trace[r].lines) :
                /\ (i = 2) =>
                       trace[r].lines[i] =
                           RowStart \o <<"\\multicolumn{">> \o number(Len(columns))
                               \o <<"}{l}{\\hspace{-\\tabcolsep}">> \o label
                               \o <<"} \\\\ \\hline">>
                /\ (i = 3) =>
                       IndentedJoinedAndTerminated(trace[r].lines[i], ColumnNames)
                /\ (i >= 4 /\ i <= Len(rows) + 3) =>
                       IndentedJoinedAndTerminated(trace[r].lines[i], rows[i - 3])

C21_Witness ==
    \E r \in ReaderIds :
        /\ IsTab(r) /\ Disciplined(r)
        /\ Len(columns) = 2 /\ Len(rows) = 1 /\ AllRowsWellFormed
        /\ Len(trace[r].lines) = 5
        /\ SeparatorsIn(trace[r].lines[3], ColumnSeparator) = 1
        /\ SeparatorsIn(trace[r].lines[4], ColumnSeparator) = 1

----------------------------------------------------------------------------
(* Properties of the command lines and the presets (checked under SpecPdf) *)

\* C22: the argument list of every launched step is the fixed arguments of
\* the step in their order, then -output-directory= with the path of the
\* temporary directory, then the path of main.tex in that directory as the
\* last argument; all steps of the call get the same directory and the same
\* source path.
C22_ArgumentsOfEveryStep ==
    /\ \A i \in 1..Len(procs) :
          LET a     == procs[i].arguments
              fixed == commands[procs[i].step].args
          IN  /\ procs[i].program = commands[procs[i].step].name
              /\ Len(a) = Len(fixed) + 2
              /\ SubSeq(a, 1, Len(fixed)) = fixed
              /\ a[Len(a) - 1] = <<"-output-directory=">> \o TmpPath
              /\ a[Len(a)] = TmpPath \o <<"/">> \o <<"main.tex">>
    /\ \A i, j \in 1..Len(procs) :
          LET a == procs[i].arguments
              b == procs[j].arguments
          IN  /\ a[Len(a) - 1] = b[Len(b) - 1]
              /\ a[Len(a)] = b[Len(b)]

C22_Witness ==
    /\ Len(procs) = 2
    /\ procs[1].arguments = << <<"-halt-on-error">>, <<"-draftmode">>,
                               <<"-output-directory=">> \o TmpPath,
                               TmpPath \o <<"/", "main.tex">> >>
    /\ Len(procs[2].arguments) = 3

\* cs is a draft pass followed by a final pass of the one program prog,
\* with the flags written with the dash or dashes of prefix
TwoPassPreset(cs, prog, prefix) ==
    /\ Len(cs) = 2
    /\ cs[1].name = prog /\ cs[2].name = prog
    /\ cs[1].args = << <<prefix \o "halt-on-error">>, <<prefix \o "draftmode">> >>
    /\ cs[2].args = << <<prefix \o "halt-on-error">> >>

\* C23: either preset is two steps of one program, a draft pass and then a
\* final pass: -halt-on-error -draftmode then -halt-on-error to pdflatex,
\* --halt-on-error --draftmode then --halt-on-error to lualatex, whichever
\* constructor built the renderer; a call with a preset launches its steps
\* with that program and these flags.
C23_PresetsAreTwoPasses ==
    /\ \A r \in PdfLaTeXRenderers : TwoPassPreset(r.commands, "pdflatex", "-")
    /\ \A r \in LuaLaTeXRenderers : TwoPassPreset(r.commands, "lualatex", "--")
    /\ \A prog \in {"pdflatex", "lualatex"} :
          (Len(commands) > 0 /\ commands[1].name = prog) =>
              /\ TwoPassPreset(commands, prog,
                               IF prog = "pdflatex" THEN "-" ELSE "--")
              /\ \A i \in 1..Len(procs) :
                    /\ procs[i].program = prog
                    /\ SubSeq(procs[i].arguments, 1, 3 - i) = commands[i].args

C23_Witness ==
    /\ \E r \in LuaLaTeXRenderers : commands = r.commands
    /\ Len(procs) = 2
    /\ procs[1].program = "lualatex" /\ procs[2].program = "lualatex"
    /\ procs[2].state = "exit0"

----------------------------------------------------------------------------
(* Properties of the LuaDocument preamble (checked under SpecLua) *)

\* the lines of the preamble: the texts between its newlines
PreambleLines == SplitAt(preamble, NewLine)

\* the number of fixed lines getPreamble starts with
FixedLineCount == 14

\* line is the macro definition of the column type ct
IsMacroLineOf(line, ct) ==
    /\ Len(line) >= 5
    /\ line[1] = "\\newcolumntype{"
    /\ line[2] = ct.name
    /\ IF ct.autoFit
       THEN Len(line) = 5 /\ line[5] = "\\arraybackslash}X}"
       ELSE /\ line[5] = "\\arraybackslash}p{"
            /\ SubSeq(line, 6, Len(line)) = number(ct.size) \o <<"mm}}">>

\* C24: the preamble of a LuaDocument is the fixed document-class, geometry
\* and font lines followed by one macro-definition line per column type of
\* the options, in the order of the options' list, joined by single
\* newlines with none at the end: with K column types it has 14 + K lines;
\* every auto-fit column type, however many there are, has its own
\* auto-fit (X) line; render emits this preamble first.
C24_PreambleLines ==
    LET K == Len(options.columnsTypes) IN
    /\ Len(PreambleLines) = FixedLineCount + K
    /\ SubSeq(PreambleLines, 1, FixedLineCount) = fixedPreambleLines(options)
    /\ \A i \in 1..K :
          IsMacroLineOf(PreambleLines[FixedLineCount + i], options.columnsTypes[i])
    /\ \A i \in 1..Len(PreambleLines) : PreambleLines[i] # << >>
    /\ <<preamble[Len(preamble)]>> # NewLine
    /\ Cardinality({ i \in 1..Len(PreambleLines) :
                        PreambleLines[i][Len(PreambleLines[i])]
                            = "\\arraybackslash}X}" })
           = Cardinality({ i \in 1..K : options.columnsTypes[i].autoFit })
    /\ (rpc # "idle") => IsPrefix(preamble \o NewLine \o NewLine, out)

C24_Witness ==
    /\ Len(options.columnsTypes) = 2
    /\ options.columnsTypes[1].autoFit /\ options.columnsTypes[2].autoFit
    /\ Len(PreambleLines) = 16
    /\ rpc = "done"

\* the point sizes the extarticle class knows
ValidFontSizes == {8, 9, 10, 11, 12, 14, 17, 20}

\* the document-class line of the preamble for font size f
DocumentClassLine(f) ==
    <<"\\documentclass[russian,openany,a4paper,">> \o number(f)
        \o <<"pt,landscape]{extarticle}">>

\* C25: the font size of the options of a LuaDocument that is rendered is
\* one of 8, 9, 10, 11, 12, 14, 17, 20, and the document-class line that
\* render writes carries one of these sizes.
C25_FontSizeIsValid ==
    (rpc # "idle") =>
        /\ options.fontSize \in ValidFontSizes
        /\ \E f \in ValidFontSizes : IsPrefix(DocumentClassLine(f), out)

----------------------------------------------------------------------------
(* Properties shared by the two file renderers (checked under SpecFile) *)

\* C26: both file renderers share the render step: for every document the
\* text that the compile pipeline has in main.tex, and the text that
\* TeXFileRenderer has in the named file, when their writes went through,
\* is the text BaseDocument::render emits for that document to a stream --
\* the text of a call of render on a stream made before, and the text of
\* the document's layout.
C26_SameRenderStep ==
    /\ (tmp.texState = "written" /\ tmp.dir = "exists") =>
           /\ tmp.tex = C8_Text
           /\ (lastOut.outcome = "done") => tmp.tex = lastOut.text
    /\ (tmp.texState = "written") =>
           \A i \in 1..Len(procs) : procs[i].tex = C8_Text
    /\ (ppc = "returned" /\ outputFile.now = "tex") =>
           /\ result = TRUE
           /\ outputFile.text = C8_Text
           /\ (lastOut.outcome = "done") => outputFile.text = lastOut.text
    /\ (ppc = "idle" /\ rpc = "done") => out = C8_Text

C26_Witness ==
    /\ ppc = "returned" /\ outputFile.now = "tex"
    /\ lastOut.outcome = "done"
    /\ outputFile.text = lastOut.text
    /\ elements = <<"par", "tab">> /\ Len(rows) = 1 /\ Len(sentences) = 2

\* C28: whenever render returns false, a file that was at the output path
\* before the call is still there with what it held, also when every step
\* succeeded and the move of the artifact failed, and when the command list
\* is empty or no step produced an artifact.
C28_FalseKeepsExistingOutput ==
    (ppc = "returned" /\ result = FALSE /\ outputFile.before # "none") =>
        outputFile.now = outputFile.before

\* C29: render returns true only if the source file was written, every
\* step of the command list was invoked exactly once and finished within
\* the timeout with exit code 0, the removal of a file that was at the
\* output path succeeded, and the artifact was moved to the output path; a
\* call whose steps leave no artifact in the temporary directory, as with
\* an empty command list, never returns true.
C29_TrueOnlyAfterEveryStage ==
    (ppc = "returned" /\ result = TRUE) =>
        /\ tmp.texState = "written"
        /\ Len(procs) = Len(commands)
        /\ \A i \in 1..Len(procs) :
              procs[i].step = i /\ procs[i].state = "exit0"
        /\ (outputFile.before # "none") => outputFile.removal = "removed"
        /\ outputFile.rename = "moved"
        /\ commands # << >>

\* the number of lines of the element a reader of this kind reads: N
\* sentences of a paragraph, R rows and four frame lines of a table
LineCount(kind) == IF kind = "par" THEN Len(sentences) ELSE Len(rows) + 4

\* a step of render that calls elementReader->readLine()
RenderCallsReadLine ==
    rpc = "read" /\ rpc' \in {"read", "thrown"} /\ vars' # vars

\* C30: during render, readLine() is never called on a reader that is at its
\* end, and the reader of an element has reached its end when the next
\* element is started; so the position of the reader never exceeds the line
\* count of its element (N for a paragraph, R + 4 for a table).
C30_RenderReadsToEndAndNoFurther ==
    /\ [](elementReader.kind # "none" =>
              elementReader.position \in 0..LineCount(elementReader.kind))
    /\ [][RenderCallsReadLine =>
              elementReader.position < LineCount(elementReader.kind)]_vars
    /\ [][(rpc = "read" /\ slot' = slot + 1) =>
              /\ elementReader.kind = elements[slot]
              /\ elementReader.position = LineCount(elementReader.kind)
              /\ Len(slotLines[slot].lines) = LineCount(elementReader.kind)]_vars

C30_Witness ==
    /\ rpc = "read" /\ slot = 3
    /\ elements = <<"tab", "par", "tab">>
    /\ Len(sentences) = 1 /\ Len(rows) = 1
    /\ Len(slotLines[1].lines) = 5 /\ Len(slotLines[2].lines) = 1
    /\ elementReader.kind = "tab"
    /\ elementReader.position = LineCount("tab")

----------------------------------------------------------------------------
(* A table reader after the std::exception (checked under SpecLongTable) *)

\* a step in which readLine() of reader r raised the std::exception
ReadLineRaised(r) == IsTab(r) /\ trace'[r].throws = trace[r].throws + 1

\* C31: when readLine() of a table reader raises the std::exception of a
\* malformed row, the position of the reader is left as it was: atEnd()
\* stays false, a repeated readLine() raises again, and the reader never
\* goes past the offending row nor returns the close directive.
C31_RaiseLeavesReaderInPlace ==
    /\ [][\A r \in ReaderIds :
            ReadLineRaised(r) =>
                /\ readers'[r].position = readers[r].position
                /\ ~LongTable_atEnd(readers'[r].position, rows')
                /\ LongTable_result(readers'[r].position, columns', rows',
                                    label').kind = "throw"]_vars
    /\ [](\A r \in ReaderIds :
            (IsTab(r) /\ trace[r].throws > 0) =>
                /\ ~LongTable_atEnd(readers[r].position, rows)
                /\ LongTable_result(readers[r].position, columns, rows,
                                    label).kind = "throw"
                /\ getCurrentRowIndex(readers[r].position) = FirstBadRow
                /\ readers[r].position < Len(rows) + 3
                /\ \A i \in 1..Len(trace[r].lines) :
                       trace[r].lines[i] # TableEnd)

C31_Witness ==
    \E r \in ReaderIds :
        /\ IsTab(r)
        /\ trace[r].throws = 2
        /\ Len(rows) = 2 /\ ~WellFormed(rows[1]) /\ WellFormed(rows[2])
        /\ readers[r].position = 3
        /\ Len(trace[r].lines) = 3

----------------------------------------------------------------------------
(* Termination and length of a render (checked under SpecTerminating) *)

RECURSIVE NewLinesIn(_)
\* the number of line ends in a text
NewLinesIn(text) ==
    IF text = << >> THEN 0
    ELSE (IF <<Head(text)>> = NewLine THEN 1 ELSE 0) + NewLinesIn(Tail(text))

\* the lines of out that follow the preamble and the end of its last line
LinesAfterPreamble ==
    NewLinesIn(SubSeq(out, Len(preamble) + 2, Len(out)))

\* 1 (blank) + 1 (document-open) + for every slot the line count of its
\* element and 1 + 1 (document-close)
ExpectedLines ==
    1 + 1
      + Cardinality(SlotsOf("par")) * (LineCount("par") + 1)
      + Cardinality(SlotsOf("tab")) * (LineCount("tab") + 1)
      + 1

\* C32: a call of render on a document whose table rows are all well-formed
\* ends, and after the preamble it has emitted 1 + 1 + the sum over the
\* slots of (line count of the element + 1) + 1 lines, a paragraph counting
\* its N sentences and a table its R rows and 4.
C32_RenderTerminatesWithLineCount ==
    /\ ((rpc \in {"loop", "read"} /\ AllRowsWellFormed) ~> (rpc = "done"))
    /\ []((rpc = "done" /\ Unmutated) => LinesAfterPreamble = ExpectedLines)

C32_Witness ==
    /\ rpc = "done" /\ Unmutated
    /\ elements = <<"tab", "par", "tab">>
    /\ Len(sentences) = 1 /\ Len(rows) = 1
    /\ LinesAfterPreamble = 17
    /\ ExpectedLines = 17

----------------------------------------------------------------------------
(* The source file and the steps (checked under SpecPdf) *)

\* the call of PdfFileRenderer::render is in its loop over the steps or
\* past it
StepsUnderWay == ppc \in {"commands", "waiting", "rename"}

\* C33: in PdfFileRenderer::render the source file is rendered to its end,
\* flushed and closed before the first step is started, and it is not
\* written between the steps or after them: every step of a call reads the
\* same source text.
C33_SourceFixedBeforeSteps ==
    /\ []((procs # << >> \/ StepsUnderWay) =>
              /\ rpc = "done"
              /\ tmp.texState \in {"written", "short"}
              /\ \A i \in 1..Len(procs) : procs[i].tex = procs[1].tex)
    /\ []((StepsUnderWay /\ procs # << >>) => procs[1].tex = tmp.tex)
    /\ [][(StepsUnderWay /\ ppc' \in {"commands", "waiting", "rename"}) =>
              /\ tmp'.tex = tmp.tex /\ tmp'.texState = tmp.texState
              /\ out' = out /\ rpc' = rpc]_vars

C33_Witness ==
    /\ ppc = "rename"
    /\ Len(commands) = 3 /\ Len(procs) = 3
    /\ tmp.texState = "written"
    /\ procs[1].tex = tmp.tex /\ procs[3].tex = procs[1].tex
    /\ Len(tmp.tex) > Len(preamble)

----------------------------------------------------------------------------
(* render_pdf against PdfLaTeXFileRenderer::render (checked under
   SpecLegacy) *)

\* both passes were run and launchCommandOverTexFile would have returned
\* true for either
StepsSucceeded ==
    /\ Len(procs) = 2
    /\ \A i \in 1..Len(procs) : launchSucceeded(procs[i].state)

\* PdfFileRenderer::render got past removeExistingOutputFile
ReachedRename ==
    /\ StepsSucceeded
    /\ removeExistingOutputFile(outputFile.before # "none",
                                outputFile.removal # "failed")

\* what PdfLaTeXFileRenderer::render returns for the outcomes of the passes
\* and of the operations on the output path that the call met
PipelineResult == ReachedRename /\ renameResult(outputFile.rename = "moved")

\* what it leaves at the output path for these outcomes
PipelineOutput ==
    IF ~ReachedRename THEN outputFile.before
    ELSE IF outputFile.rename = "moved" THEN "pdf"
    ELSE IF outputFile.removal = "failed" THEN outputFile.before
    ELSE "none"

\* a finished call of PdfLaTeXFileRenderer::render that ran a pass returned
\* PipelineResult and left PipelineOutput
PipelineRendersAsSummarised ==
    (ppc = "returned" /\ procs # << >>) =>
        /\ result = PipelineResult
        /\ outputFile.now = PipelineOutput

\* C34: for every combination of outcomes of the two passes and of the
\* operations on the output path, render_pdf returns what
\* PdfLaTeXFileRenderer::render returns and leaves the output path as that
\* call leaves it.
C34_LegacyMatchesPipeline ==
    (ppc = "rp_returned" /\ procs # << >>) =>
        /\ result = PipelineResult
        /\ outputFile.now = PipelineOutput

====
